---- MODULE Spec2Model ----
(***************************************************************************)
(* Model of rename.py (RUBclim/bike-pic-renamer): main() walks the input   *)
(* files, extracts the EXIF geotag of each (Photo.from_image), joins the   *)
(* position against the buffered STATIONS and copies a matched file to     *)
(* <output-dir>/<station>_<UTC time>.jpg; at the end it saves stations.png.*)
(*                                                                         *)
(* Representation.                                                         *)
(*  - A Python float is [nan, v]: v counts thousandths for a raw EXIF      *)
(*    number and 1/3,600,000 degree (a milli-arcsecond) for a decimal      *)
(*    coordinate, so that minutes/60 and seconds/3600 are exact.           *)
(*  - An EXIF value is [kind, v]: "num" converts with float(), "str" is a  *)
(*    non-numeric string (float() raises ValueError), "obj" is an object   *)
(*    float() does not accept, e.g. a (num, den) pair (TypeError).         *)
(*  - A raising expression is modelled by the name of its exception, in    *)
(*    Python's evaluation order; "none" means it did not raise.            *)
(*  - The file system is fs: path -> bytes; Images decodes bytes.          *)
(***************************************************************************)
EXTENDS Integers, Sequences, FiniteSets, TLC

\* Longest input list (args.files) explored.
MaxFiles == 3

--------------------------------------------------------------------------
(* Floats and EXIF values *)

NaN == [nan |-> TRUE, v |-> 0]

Float(v) == [nan |-> FALSE, v |-> v]

isnan(f) == f.nan

Num(v) == [kind |-> "num", v |-> v]

NonNumeric == [kind |-> "str", v |-> 0]

NotANumber == [kind |-> "obj", v |-> 0]

\* float(x): the exception it raises
FloatExc(x) ==
    CASE x.kind = "num" -> "none"
      [] x.kind = "str" -> "ValueError"
      [] OTHER -> "TypeError"

\* the first exception of a sequence of evaluations
RECURSIVE FirstExc(_)
FirstExc(es) ==
    IF es = <<>> THEN "none"
    ELSE IF Head(es) # "none" THEN Head(es)
    ELSE FirstExc(Tail(es))

--------------------------------------------------------------------------
(* STATIONS: name -> (lon, lat) in milli-arcseconds, in the table's order *)

StationNames ==
    << "saarlandstr_open_space_vegetation",
       "landgrafenstr_vegetation",
       "chemnitzerstr_n_s_street",
       "saarlandstr_e_w_street",
       "eintrachtstr_open_space",
       "landgrafenstr_e_w_vegetation",
       "DOTAMW" >>

StationPoints ==
    << [lon |-> 26891316, lat |-> 185425596],
       [lon |-> 26901324, lat |-> 185415264],
       [lon |-> 26867808, lat |-> 185407128],
       [lon |-> 26855424, lat |-> 185416668],
       [lon |-> 26887752, lat |-> 185401944],
       [lon |-> 26865396, lat |-> 185409900],
       [lon |-> 26862454, lat |-> 185406312] >>

\* .buffer(35): the zone radius in metres
BUFFER_M == 35

\* to_crs('EPSG:25832'), linearised around Dortmund (7.46E, 51.50N): one
\* milli-arcsecond is 1.93 cm of easting and 3.09 cm of northing.  Result in
\* centimetres relative to that point.
Scale(d, cmPer1000) == (d \div 1000) * cmPer1000 + ((d % 1000) * cmPer1000) \div 1000

to_crs(p) ==
    [x |-> Scale(p.lon - 26856000, 1930), y |-> Scale(p.lat - 185400000, 3090)]

Abs(n) == IF n < 0 THEN -n ELSE n

\* predicate='within' against one buffered station
within(p, s) ==
    LET c == to_crs(StationPoints[s])
        r == BUFFER_M * 100
        dx == Abs(p.x - c.x)
        dy == Abs(p.y - c.y)
    IN  dx <= r /\ dy <= r /\ dx * dx + dy * dy < r * r

STATIONS == 1..Len(StationNames)

--------------------------------------------------------------------------
(* deg_min_secs_to_decimal *)

deg_min_secs_to_decimal(degrees, minutes, seconds, reference) ==
    LET decimal_degrees == degrees * 3600 + minutes * 60 + seconds
    IN  IF reference = "S" \/ reference = "W"
        THEN -decimal_degrees
        ELSE decimal_degrees

--------------------------------------------------------------------------
(* Photo *)

\* Photo.has_position
has_position(photo) == ~(isnan(photo.latitude) \/ isnan(photo.longitude))

\* Photo.position: the point, meaningful only when has_position
position(photo) == [lon |-> photo.longitude.v, lat |-> photo.latitude.v]

EmptyDict == <<>>

\* named_tags['GPSInfo'] or, on KeyError, {}
GpsOf(named_tags) ==
    IF "GPSInfo" \in DOMAIN named_tags THEN named_tags["GPSInfo"] ELSE EmptyDict

\* float(gps[key][i - 1])
CompExc(c, i) == IF Len(c) < i THEN "IndexError" ELSE FloatExc(c[i])

\* the try body of a coordinate: the exception it raises
CoordExc(gps, key, ref) ==
    IF key \notin DOMAIN gps THEN "KeyError"
    ELSE FirstExc(<< CompExc(gps[key], 1), CompExc(gps[key], 2),
                     CompExc(gps[key], 3),
                     IF ref \notin DOMAIN gps THEN "KeyError" ELSE "none" >>)

\* the exceptions the except clause of latitude and longitude names
CoordCaught == {"KeyError"}

\* the exceptions the except clause of altitude names
AltCaught == {"KeyError", "ValueError"}

\* one coordinate: [exc, val, warned]
Coord(gps, key, ref) ==
    LET e == CoordExc(gps, key, ref)
    IN  IF e = "none"
        THEN [exc |-> "none", warned |-> FALSE,
              val |-> Float(deg_min_secs_to_decimal(gps[key][1].v, gps[key][2].v,
                                                    gps[key][3].v, gps[ref]))]
        ELSE IF e \in CoordCaught
        THEN [exc |-> "none", warned |-> TRUE, val |-> NaN]
        ELSE [exc |-> e, warned |-> FALSE, val |-> NaN]

AltExc(gps) ==
    IF "GPSAltitude" \notin DOMAIN gps THEN "KeyError"
    ELSE IF FloatExc(gps["GPSAltitude"]) # "none" THEN FloatExc(gps["GPSAltitude"])
    ELSE IF "GPSAltitudeRef" \notin DOMAIN gps THEN "KeyError"
    ELSE FloatExc(gps["GPSAltitudeRef"])

Alt(gps) ==
    LET e == AltExc(gps)
    IN  IF e = "none"
        THEN [exc |-> "none", warned |-> FALSE,
              val |-> Float(gps["GPSAltitude"].v + gps["GPSAltitudeRef"].v)]
        ELSE IF e \in AltCaught
        THEN [exc |-> "none", warned |-> TRUE, val |-> NaN]
        ELSE [exc |-> e, warned |-> FALSE, val |-> NaN]

\* named_tags.get("SubsecTime", 0)
SubsecOf(named_tags) ==
    IF "SubsecTime" \in DOMAIN named_tags THEN named_tags["SubsecTime"] ELSE 0

\* '%f' reads the digits of int(subsec) as a fraction of a second
Microsecond(n) ==
    CASE n < 10 -> n * 100000
      [] n < 100 -> n * 10000
      [] n < 1000 -> n * 1000
      [] n < 10000 -> n * 100
      [] n < 100000 -> n * 10
      [] OTHER -> n

\* named_tags["SubsecTime"] instead of named_tags.get("SubsecTime", 0)
DateExcStrict(named_tags) ==
    IF {"DateTime", "SubsecTime", "OffsetTime"} \subseteq DOMAIN named_tags
    THEN IF named_tags["SubsecTime"] >= 1000000 THEN "ValueError" ELSE "none"
    ELSE "KeyError"

\* the f-string and strptime of line 146-149: the exception raised
DateExc(named_tags) ==
    IF "DateTime" \notin DOMAIN named_tags THEN "KeyError"
    ELSE IF "OffsetTime" \notin DOMAIN named_tags THEN "KeyError"
    ELSE IF SubsecOf(named_tags) >= 1000000 THEN "ValueError"
    ELSE "none"

DateOf(named_tags) ==
    [year |-> named_tags["DateTime"].year, month |-> named_tags["DateTime"].month,
     day |-> named_tags["DateTime"].day, hour |-> named_tags["DateTime"].hour,
     minute |-> named_tags["DateTime"].minute,
     second |-> named_tags["DateTime"].second,
     microsecond |-> Microsecond(SubsecOf(named_tags)),
     utcoffset |-> named_tags["OffsetTime"]]

\* the required tags read after the date, in order
RequiredExc(named_tags) ==
    IF {"ExifImageWidth", "ExifImageHeight", "Orientation"} \subseteq DOMAIN named_tags
    THEN "none" ELSE "KeyError"

WARN_GPS == "WARNING: image () has no GPS Information"
WARN_LAT == "WARNING: image has no valid latitude"
WARN_LON == "WARNING: image has no valid longitude"
WARN_ALT == "WARNING: image has no valid altitude"

If(c, s) == IF c THEN <<s>> ELSE <<>>

NoPhoto == [none |-> TRUE]

\* Photo.from_image: [exc, photo, out]; out are the lines printed before it
\* returned or raised
from_image(img) ==
    IF ~img.exif THEN [exc |-> "AttributeError", photo |-> NoPhoto, out |-> <<>>]
    ELSE
    LET named_tags == img.named_tags
        gps == GpsOf(named_tags)
        o1 == If("GPSInfo" \notin DOMAIN named_tags, WARN_GPS)
        lat == Coord(gps, "GPSLatitude", "GPSLatitudeRef")
        o2 == o1 \o If(lat.warned, WARN_LAT)
        lon == Coord(gps, "GPSLongitude", "GPSLongitudeRef")
        o3 == o2 \o If(lon.warned, WARN_LON)
        alt == Alt(gps)
        o4 == o3 \o If(alt.warned, WARN_ALT)
        tail == FirstExc(<<DateExc(named_tags), RequiredExc(named_tags)>>)
    IN  IF lat.exc # "none" THEN [exc |-> lat.exc, photo |-> NoPhoto, out |-> o1]
        ELSE IF lon.exc # "none" THEN [exc |-> lon.exc, photo |-> NoPhoto, out |-> o2]
        ELSE IF alt.exc # "none" THEN [exc |-> alt.exc, photo |-> NoPhoto, out |-> o3]
        ELSE IF tail # "none" THEN [exc |-> tail, photo |-> NoPhoto, out |-> o4]
        ELSE [exc |-> "none", out |-> o4,
              photo |-> [date |-> DateOf(named_tags),
                         width |-> named_tags["ExifImageWidth"],
                         height |-> named_tags["ExifImageHeight"],
                         orientation |-> named_tags["Orientation"],
                         latitude |-> lat.val, longitude |-> lon.val,
                         altitude |-> alt.val]]

--------------------------------------------------------------------------
(* date.astimezone(timezone.utc).strftime('%Y-%m-%dT%H:%M:%SZ') *)

IsLeap(y) == (y % 4 = 0 /\ y % 100 # 0) \/ y % 400 = 0

DaysInMonth(y, m) ==
    CASE m \in {4, 6, 9, 11} -> 30
      [] m = 2 -> IF IsLeap(y) THEN 29 ELSE 28
      [] OTHER -> 31

PrevDay(d) ==
    IF d.day > 1 THEN [d EXCEPT !.day = d.day - 1]
    ELSE IF d.month > 1
    THEN [d EXCEPT !.month = d.month - 1, !.day = DaysInMonth(d.year, d.month - 1)]
    ELSE [d EXCEPT !.year = d.year - 1, !.month = 12, !.day = 31]

NextDay(d) ==
    IF d.day < DaysInMonth(d.year, d.month) THEN [d EXCEPT !.day = d.day + 1]
    ELSE IF d.month < 12 THEN [d EXCEPT !.month = d.month + 1, !.day = 1]
    ELSE [d EXCEPT !.year = d.year + 1, !.month = 1, !.day = 1]

\* an offset is less than a day either way
astimezone_utc(d) ==
    LET t == d.hour * 60 + d.minute - d.utcoffset
        u == [d EXCEPT !.hour = (t % 1440) \div 60, !.minute = t % 60,
                       !.utcoffset = 0]
    IN  IF t < 0 THEN PrevDay(u) ELSE IF t >= 1440 THEN NextDay(u) ELSE u

Pad2(n) == IF n < 10 THEN "0" \o ToString(n) ELSE ToString(n)

Pad4(n) ==
    CASE n < 10 -> "000" \o ToString(n)
      [] n < 100 -> "00" \o ToString(n)
      [] n < 1000 -> "0" \o ToString(n)
      [] OTHER -> ToString(n)

strftime(d) ==
    Pad4(d.year) \o "-" \o Pad2(d.month) \o "-" \o Pad2(d.day) \o "T"
        \o Pad2(d.hour) \o ":" \o Pad2(d.minute) \o ":" \o Pad2(d.second) \o "Z"

--------------------------------------------------------------------------
(* The images on disk: bytes -> what PIL reads from them *)

\* degrees, minutes, seconds (in thousandths) of a coordinate >= 0
Dms(mas) ==
    << Num((mas \div 3600000) * 1000), Num(((mas % 3600000) \div 60000) * 1000),
       Num(mas % 60000) >>

GpsAt(lon, lat) ==
    [GPSLatitude |-> Dms(lat), GPSLatitudeRef |-> "N",
     GPSLongitude |-> Dms(lon), GPSLongitudeRef |-> "E",
     GPSAltitude |-> Num(95000), GPSAltitudeRef |-> Num(0)]

Dims == [ExifImageWidth |-> 4000, ExifImageHeight |-> 3000, Orientation |-> 1]

Taken(y, mo, d, h, mi, s, subsec, offset) ==
    [DateTime |-> [year |-> y, month |-> mo, day |-> d, hour |-> h,
                   minute |-> mi, second |-> s],
     SubsecTime |-> subsec, OffsetTime |-> offset]

Noon == Taken(2024, 6, 1, 12, 0, 0, 0, 120)

Saarland == StationPoints[1]

Jpeg(tags) == [readable |-> TRUE, exif |-> TRUE, named_tags |-> tags]

Without(f, k) == [x \in DOMAIN f \ {k} |-> f[x]]

Images ==
    [ \* at the registered centre of saarlandstr_open_space_vegetation,
      \* 2024:06:01 12:00:00.0+02:00
      A |-> Jpeg(Noon @@ Dims @@ [GPSInfo |-> GpsAt(Saarland.lon, Saarland.lat)]),
      \* 30 m north of it, the same second written in UTC
      B |-> Jpeg(Taken(2024, 6, 1, 10, 0, 0, 5, 0) @@ Dims
                 @@ [GPSInfo |-> GpsAt(Saarland.lon, Saarland.lat + 971)]),
      \* no GPS tags at all
      C |-> Jpeg(Noon @@ Dims),
      \* 40 m north of the centre: outside every zone
      D |-> Jpeg(Noon @@ Dims
                 @@ [GPSInfo |-> GpsAt(Saarland.lon, Saarland.lat + 1294)]),
      \* GPS without a latitude
      E |-> Jpeg(Noon @@ Dims
                 @@ [GPSInfo |-> Without(GpsAt(Saarland.lon, Saarland.lat),
                                         "GPSLatitude")]),
      \* a latitude of two components
      F |-> Jpeg(Noon @@ Dims
                 @@ [GPSInfo |-> [GpsAt(Saarland.lon, Saarland.lat) EXCEPT
                                    !["GPSLatitude"] = SubSeq(@, 1, 2)]]),
      \* a non-numeric altitude, half past midnight on 1 March, +01:00
      G |-> Jpeg(Taken(2024, 3, 1, 0, 30, 0, 0, 60) @@ Dims
                 @@ [GPSInfo |-> [GpsAt(StationPoints[2].lon, StationPoints[2].lat)
                                    EXCEPT !["GPSAltitude"] = NonNumeric]]),
      \* no SubsecTime
      H |-> Jpeg(Without(Noon, "SubsecTime") @@ Dims
                 @@ [GPSInfo |-> GpsAt(StationPoints[3].lon, StationPoints[3].lat)]),
      \* no OffsetTime
      I |-> Jpeg(Without(Noon, "OffsetTime") @@ Dims
                 @@ [GPSInfo |-> GpsAt(Saarland.lon, Saarland.lat)]),
      \* no DateTime
      J |-> Jpeg(Without(Noon, "DateTime") @@ Dims
                 @@ [GPSInfo |-> GpsAt(Saarland.lon, Saarland.lat)]),
      \* no ExifImageWidth
      K |-> Jpeg(Noon @@ Without(Dims, "ExifImageWidth")
                 @@ [GPSInfo |-> GpsAt(Saarland.lon, Saarland.lat)]),
      \* not an image
      L |-> [readable |-> FALSE, exif |-> FALSE, named_tags |-> EmptyDict],
      \* the plot an earlier run saved: an image without EXIF data
      P0 |-> [readable |-> TRUE, exif |-> FALSE, named_tags |-> EmptyDict],
      \* a longitude whose seconds are a (num, den) pair
      M |-> Jpeg(Noon @@ Dims
                 @@ [GPSInfo |-> [GpsAt(Saarland.lon, Saarland.lat) EXCEPT
                                    !["GPSLongitude"][3] = NotANumber]]) ]

\* --output-dir (its default)
output_dir == "images-renamed"

\* A path is [dir, name]; the working directory is ".".
\* os.path.join
join(dir, name) == [dir |-> dir, name |-> name]

Cwd(name) == join(".", name)

\* the path as printed
Str(path) == IF path.dir = "." THEN path.name ELSE path.dir \o "/" \o path.name

STATIONS_PNG == Cwd("stations.png")

\* an earlier run's copy of a.jpg
Renamed == join(output_dir, "saarlandstr_open_space_vegetation_2024-06-01T10:00:00Z.jpg")

File(name, bytes) == [x \in {Cwd(name)} |-> bytes]

\* the files outside the output directory, and the bytes each holds
Disk ==
    File("a.jpg", "A") @@ File("b.jpg", "B") @@ File("c.jpg", "C")
    @@ File("d.jpg", "D") @@ File("e.jpg", "E") @@ File("f.jpg", "F")
    @@ File("g.jpg", "G") @@ File("h.jpg", "H") @@ File("i.jpg", "I")
    @@ File("j.jpg", "J") @@ File("k.jpg", "K") @@ File("l.jpg", "L")
    @@ File("m.jpg", "M") @@ File("stations.png", "P0")

\* the disk with the output directory of an earlier run
DiskAfterRun == Disk @@ [x \in {Renamed} |-> "A"]

\* what a shell may pass as files
Paths == DOMAIN DiskAfterRun

--------------------------------------------------------------------------
(* main *)

VARIABLES
    files,          \* args.files
    fs,             \* the file system: path -> bytes
    fs0,            \* the file system when main started
    dir_exists,     \* whether args.output_dir exists
    pc,             \* "loop", "body", "join", "report", "done", "crashed"
    idx,            \* the loop's index
    img_obj,        \* the Photo of the current file
    photo_points,   \* the matched photos: [idx, station]
    stdout,         \* the lines printed: [idx, text]
    exit_code,      \* the process's exit code, -1 while it runs
    raised,         \* the uncaught exception, "none" if none
    opened,         \* the indexes whose file Image.open was called on
    joined,         \* the indexes whose photo was joined against STATIONS
    makedirs,       \* the indexes os.makedirs was called for
    copies,         \* the shutil.copy calls that returned: [idx, src, dst]
    savefigs        \* the number of times stations.png was saved

vars == << files, fs, fs0, dir_exists, pc, idx, img_obj, photo_points, stdout,
           exit_code, raised, opened, joined, makedirs, copies, savefigs >>

\* the sequences over S of length 1..n (nargs='+')
SeqsUpTo(S, n) == UNION {[1..k -> S] : k \in 1..n}

\* The state when the loop starts (line 198): the files named on the command
\* line, and a disk on which the output directory exists (left by an earlier
\* run) or does not.
Init ==
    /\ files \in SeqsUpTo(Paths, MaxFiles)
    /\ dir_exists \in BOOLEAN
    /\ fs = IF dir_exists THEN DiskAfterRun ELSE Disk
    /\ fs0 = fs
    /\ pc = "loop"
    /\ idx = 0
    /\ img_obj = NoPhoto
    /\ photo_points = <<>>
    /\ stdout = <<>>
    /\ exit_code = -1
    /\ raised = "none"
    /\ opened = {}
    /\ joined = {}
    /\ makedirs = {}
    /\ copies = <<>>
    /\ savefigs = 0

\* files[idx] of the 0-based Python list
fname == files[idx + 1]

Line(text) == [idx |-> idx, text |-> text]

RECURSIVE Lines(_)
Lines(texts) ==
    IF texts = <<>> THEN <<>> ELSE <<Line(Head(texts))>> \o Lines(Tail(texts))

Progress ==
    ToString(idx + 1) \o "/" \o ToString(Len(files)) \o " - " \o Str(fname)

Skipping(f) == "No station found for image: " \o Str(f) \o ", skipping!"

\* a loop that never breaks early
BreakNever == Len(files)

\* the index at which the loop breaks
BreakAt == Len(files) - 1

\* an exception swallowed at the top level: the process ends with exit code 0
RaiseExitZero(e) ==
    /\ pc' = "crashed"
    /\ raised' = e
    /\ exit_code' = 0

\* an uncaught exception ends the process with exit code 1
Raise(e) ==
    /\ pc' = "crashed"
    /\ raised' = e
    /\ exit_code' = 1

\* Lines 199-202: the for statement takes the next file, prints the progress
\* line and breaks at BreakAt.
Iterate ==
    /\ pc = "loop"
    /\ stdout' = IF idx < Len(files) THEN Append(stdout, Line(Progress)) ELSE stdout
    /\ pc' = IF idx >= Len(files) \/ idx = BreakAt THEN "report" ELSE "body"
    /\ UNCHANGED << files, fs, fs0, dir_exists, idx, img_obj, photo_points,
                    exit_code, raised, opened, joined, makedirs, copies, savefigs >>

\* Image.open(fname): the exception it raises
OpenExc(path) ==
    IF path \notin DOMAIN fs THEN "FileNotFoundError"
    ELSE IF ~Images[fs[path]].readable THEN "UnidentifiedImageError"
    ELSE "none"

\* Lines 203-204: open the file and extract its Photo.
Open ==
    /\ pc = "body"
    /\ opened' = opened \cup {idx}
    /\ IF OpenExc(fname) # "none"
       THEN /\ Raise(OpenExc(fname))
            /\ UNCHANGED << img_obj, stdout >>
       ELSE LET r == from_image(Images[fs[fname]])
            IN  /\ stdout' = stdout \o Lines(r.out)
                /\ img_obj' = r.photo
                /\ IF r.exc # "none"
                   THEN Raise(r.exc)
                   ELSE /\ pc' = "join"
                        /\ UNCHANGED << raised, exit_code >>
    /\ UNCHANGED << files, fs, fs0, dir_exists, idx, photo_points, joined,
                    makedirs, copies, savefigs >>

\* sjoin_nearest: the nearest station whatever the distance (the first of the
\* table stands for it)
sjoin_nearest(photo) ==
    IF ~has_position(photo) THEN {}
    ELSE IF \E s \in STATIONS : within(to_crs(position(photo)), s)
    THEN {s \in STATIONS : within(to_crs(position(photo)), s)}
    ELSE {1}

\* to_geodataframe().to_crs('EPSG:25832').sjoin(STATIONS, how='inner',
\* predicate='within'): the stations of the rows of the result
sjoin(photo) ==
    IF has_position(photo)
    THEN {s \in STATIONS : within(to_crs(position(photo)), s)}
    ELSE {}

\* photo_point.index_right.values[0]
station_id(photo_point) == CHOOSE s \in photo_point : \A t \in photo_point : s <= t

new_name(photo_point, photo) ==
    StationNames[station_id(photo_point)] \o "_"
        \o strftime(astimezone_utc(photo.date)) \o ".jpg"

\* shutil.move(src, dst)
move(src, dst) ==
    [p \in (DOMAIN fs \cup {dst}) \ {src} |-> IF p = dst THEN fs[src] ELSE fs[p]]

\* shutil.copy(src, dst): the file system after it
copy(src, dst) == [p \in DOMAIN fs \cup {dst} |-> IF p = dst THEN fs[src] ELSE fs[p]]

\* Lines 206-222: join the photo against the stations; skip the file, or copy
\* it under its new name and keep the point for the plot.
Join ==
    /\ pc = "join"
    /\ joined' = joined \cup {idx}
    /\ LET photo_point == sjoin(img_obj)
       IN  IF photo_point = {}
           THEN /\ stdout' = Append(stdout, Line(Skipping(fname)))
                /\ idx' = idx + 1
                /\ pc' = "loop"
                /\ UNCHANGED << fs, dir_exists, photo_points, exit_code, raised,
                                makedirs, copies >>
           ELSE LET new_path == join(output_dir, new_name(photo_point, img_obj))
                IN  /\ makedirs' = makedirs \cup {idx}
                    /\ dir_exists' = TRUE
                    /\ IF fname = new_path
                       THEN /\ Raise("SameFileError")
                            /\ UNCHANGED << fs, idx, photo_points, copies >>
                       ELSE /\ fs' = copy(fname, new_path)
                            /\ copies' = Append(copies, [idx |-> idx, src |-> fname,
                                                         dst |-> new_path])
                            /\ photo_points' =
                                 Append(photo_points,
                                        [idx |-> idx,
                                         station |-> station_id(photo_point)])
                            /\ idx' = idx + 1
                            /\ pc' = "loop"
                            /\ UNCHANGED << exit_code, raised >>
                    /\ UNCHANGED stdout
    /\ UNCHANGED << files, fs0, img_obj, opened, savefigs >>

\* savefig moved inside "if photo_points:"
ReportIfPoints ==
    /\ pc = "report"
    /\ savefigs' = IF photo_points # <<>> THEN savefigs + 1 ELSE savefigs
    /\ fs' = IF photo_points # <<>>
             THEN [p \in DOMAIN fs \cup {STATIONS_PNG} |->
                     IF p = STATIONS_PNG THEN "PNG" ELSE fs[p]]
             ELSE fs
    /\ exit_code' = 0
    /\ pc' = "done"
    /\ UNCHANGED << files, fs0, dir_exists, idx, img_obj, photo_points, stdout,
                    raised, opened, joined, makedirs, copies >>

\* Lines 223-246: plot the matched points if any, save stations.png, return 0.
Report ==
    /\ pc = "report"
    /\ savefigs' = savefigs + 1
    /\ fs' = [p \in DOMAIN fs \cup {STATIONS_PNG} |->
                IF p = STATIONS_PNG THEN "PNG" ELSE fs[p]]
    /\ exit_code' = 0
    /\ pc' = "done"
    /\ UNCHANGED << files, fs0, dir_exists, idx, img_obj, photo_points, stdout,
                    raised, opened, joined, makedirs, copies >>

Next == Iterate \/ Open \/ Join \/ Report

Spec == Init /\ [][Next]_vars

--------------------------------------------------------------------------
(* Properties *)

Terminated == pc \in {"done", "crashed"}

Printed(text) == \E k \in DOMAIN stdout : stdout[k].text = text

PrintedAt(i, text) == \E k \in DOMAIN stdout : stdout[k] = [idx |-> i, text |-> text]

InOutputDir(fsys) == {p \in DOMAIN fsys : p.dir = output_dir}

\* the paths created or overwritten since main started
Written == {p \in DOMAIN fs : p \notin DOMAIN fs0 \/ fs[p] # fs0[p]}

\* C1: the file at the last index is never opened, joined against the
\* stations or copied, and no directory is made for it; the files that are
\* processed are those of indexes 0..n-2, taken in input order.
C1_LastFileNeverProcessed ==
    LET last == Len(files) - 1
    IN  /\ last \notin opened \cup joined \cup makedirs
        /\ \A k \in DOMAIN copies : copies[k].idx < last
        /\ \A k \in DOMAIN photo_points : photo_points[k].idx < last
        /\ opened \subseteq 0..(last - 1)
        /\ \A i \in opened : 0..i \subseteq opened
        /\ joined \subseteq opened
        /\ \A j, k \in DOMAIN copies : j < k => copies[j].idx < copies[k].idx
        /\ pc = "done" => opened = 0..(last - 1)

\* a finished run of three files whose last one, at a station's centre, was
\* left alone while the two before it were copied
C1_Witness ==
    /\ pc = "done"
    /\ Len(files) = 3
    /\ files[3] = Cwd("a.jpg")
    /\ opened = {0, 1}
    /\ Len(copies) = 2

\* C2: a run given only the photo taken at the centre of
\* saarlandstr_open_space_vegetation at 2024:06:01 12:00:00.0+02:00 ends with
\* images-renamed/saarlandstr_open_space_vegetation_2024-06-01T10:00:00Z.jpg
\* holding the bytes of the input.
C2_CentrePhotoRenamed ==
    (files = <<Cwd("a.jpg")>> /\ Terminated)
        => /\ Renamed \in DOMAIN fs
           /\ fs[Renamed] = fs0[Cwd("a.jpg")]

\* C3: a run given two photos of the same station and UTC second ends with
\* the one output path holding the bytes of the second photo.
C3_SecondOverwritesFirst ==
    (files = <<Cwd("a.jpg"), Cwd("b.jpg")>> /\ Terminated)
        => /\ Renamed \in DOMAIN fs
           /\ fs[Renamed] = fs0[Cwd("b.jpg")]

\* C4: a run given only a photo without GPS tags creates no file in the
\* output directory, prints the skip message for it and exits with code 0.
C4_NoGpsPhotoSkipped ==
    (files = <<Cwd("c.jpg")>> /\ Terminated)
        => /\ InOutputDir(fs) = InOutputDir(fs0)
           /\ Printed(Skipping(Cwd("c.jpg")))
           /\ exit_code = 0

\* an unreadable image, or a missing required tag (a KeyError that is not
\* caught is one of DateTime, OffsetTime, ExifImageWidth, ExifImageHeight or
\* Orientation)
FatalOfRequired ==
    pc = "crashed" /\ raised \in {"FileNotFoundError", "UnidentifiedImageError",
                                  "KeyError"}

\* C5 as stated: when a file hits a fatal error the process ends with a
\* non-zero exit code and the run has copied no file.
C5_FatalRunCopiesNothing ==
    FatalOfRequired => exit_code # 0 /\ copies = <<>> /\ Written = {}

\* C5 amended: when a file hits a fatal error the process ends there with a
\* non-zero exit code: nothing at or after the failing file is copied and
\* stations.png is not saved, while the copies made of the files before it
\* stay in the output directory.
C5_FatalRunStopsAtTheFile ==
    pc = "crashed"
        => /\ exit_code # 0
           /\ savefigs = 0
           /\ opened = 0..idx
           /\ \A k \in DOMAIN copies :
                /\ copies[k].idx < idx
                /\ copies[k].dst \in DOMAIN fs
           /\ Written \subseteq {copies[k].dst : k \in DOMAIN copies}

\* a run that crashed on a missing required tag after it had copied a file
C5_Witness ==
    /\ pc = "crashed"
    /\ raised = "KeyError"
    /\ idx = 1
    /\ files[2] = Cwd("k.jpg")
    /\ Len(copies) = 1
    /\ fs[copies[1].dst] = fs0[files[1]]

\* the image just opened, while its extraction is the last thing that happened
Extracted == idx \in opened /\ idx \notin joined /\ OpenExc(fname) = "none"

\* C6: a missing or malformed GPS latitude, longitude or altitude is never
\* fatal: extraction fails only for another reason, and each affected field
\* is NaN with its warning printed.
C6_GpsDefectsNeverFatal ==
    (Extracted /\ Images[fs[fname]].exif)
        => LET t == Images[fs[fname]].named_tags
               gps == GpsOf(t)
               lat == CoordExc(gps, "GPSLatitude", "GPSLatitudeRef") # "none"
               lon == CoordExc(gps, "GPSLongitude", "GPSLongitudeRef") # "none"
               alt == AltExc(gps) # "none"
           IN  /\ FirstExc(<<DateExc(t), RequiredExc(t)>>) = "none" => pc = "join"
               /\ pc = "join" =>
                    /\ lat => isnan(img_obj.latitude) /\ PrintedAt(idx, WARN_LAT)
                    /\ lon => isnan(img_obj.longitude) /\ PrintedAt(idx, WARN_LON)
                    /\ alt => isnan(img_obj.altitude) /\ PrintedAt(idx, WARN_ALT)

\* C7 as stated: extraction fails, with no Photo, whenever DateTime,
\* SubsecTime or OffsetTime is missing.
C7_AnyTimeTagMissingIsFatal ==
    (Extracted /\ Images[fs[fname]].exif
       /\ ~({"DateTime", "SubsecTime", "OffsetTime"}
               \subseteq DOMAIN Images[fs[fname]].named_tags))
        => pc = "crashed" /\ img_obj = NoPhoto

\* the image has nothing wrong but, possibly, its SubsecTime
OnlySubsecMayMiss(t) ==
    /\ {"DateTime", "OffsetTime", "ExifImageWidth", "ExifImageHeight",
        "Orientation"} \subseteq DOMAIN t
    /\ CoordExc(GpsOf(t), "GPSLatitude", "GPSLatitudeRef") \in {"none", "KeyError"}
    /\ CoordExc(GpsOf(t), "GPSLongitude", "GPSLongitudeRef") \in {"none", "KeyError"}
    /\ AltExc(GpsOf(t)) \in {"none", "KeyError", "ValueError"}

\* C7 amended: extraction fails, with no Photo, whenever DateTime or
\* OffsetTime is missing; a missing SubsecTime is not fatal, the timestamp is
\* then built with a fraction of 0.
C7_DateOrOffsetMissingIsFatal ==
    (Extracted /\ Images[fs[fname]].exif)
        => LET t == Images[fs[fname]].named_tags
           IN  /\ ~({"DateTime", "OffsetTime"} \subseteq DOMAIN t)
                    => pc = "crashed" /\ img_obj = NoPhoto
               /\ (OnlySubsecMayMiss(t) /\ "SubsecTime" \notin DOMAIN t)
                    => /\ pc = "join"
                       /\ img_obj.date.microsecond = 0
                       /\ img_obj.date.second = t["DateTime"].second

\* extraction crashed on the missing OffsetTime of i.jpg
C7_Witness ==
    /\ pc = "crashed"
    /\ raised = "KeyError"
    /\ fname = Cwd("i.jpg")
    /\ img_obj = NoPhoto
    /\ "OffsetTime" \notin DOMAIN Images[fs[fname]].named_tags

\* C8 as stated: every input file still holds its content, and the loop
\* writes only inside the output directory.
C8_EveryInputUntouched ==
    /\ \A i \in DOMAIN files :
         files[i] \in DOMAIN fs0
            => files[i] \in DOMAIN fs /\ fs[files[i]] = fs0[files[i]]
    /\ pc # "done" => Written \subseteq InOutputDir(fs)

\* C8 amended: every input file that lies outside the output directory and
\* is not stations.png still exists with its content; the loop writes only
\* inside the output directory.
C8_InputsOutsideOutputDirUntouched ==
    /\ \A i \in DOMAIN files :
         (files[i] \in DOMAIN fs0 /\ files[i].dir # output_dir
            /\ files[i] # STATIONS_PNG)
            => files[i] \in DOMAIN fs /\ fs[files[i]] = fs0[files[i]]
    /\ \A k \in DOMAIN copies : copies[k].src \in DOMAIN fs
    /\ pc # "done" => Written \subseteq InOutputDir(fs)
    /\ Written \subseteq InOutputDir(fs) \cup {STATIONS_PNG}

\* a finished run whose input was copied and is still where it was
C8_Witness ==
    /\ pc = "done"
    /\ Len(copies) >= 1
    /\ copies[1].src = files[1]
    /\ files[1].dir # output_dir
    /\ fs[files[1]] = fs0[files[1]]
    /\ fs[copies[1].dst] = fs0[files[1]]

\* C9: a run without a fatal error saves stations.png exactly once, after the
\* loop has ended, and then returns 0, also when no photo matched: nothing is
\* saved before the loop has ended, a run that has left the loop can always
\* save and return, and a run that has returned has saved once.
C9_StationsPngSavedOnceAtEnd ==
    /\ pc = "done"
         => savefigs = 1 /\ exit_code = 0 /\ raised = "none"
            /\ fs[STATIONS_PNG] = "PNG"
    /\ pc # "done" => savefigs = 0 /\ exit_code # 0
    /\ pc \in {"loop", "body", "join"} => idx < Len(files) /\ raised = "none"
    /\ pc = "report" => raised = "none" /\ ENABLED Report

\* a finished run in which every processed file was skipped
C9_Witness ==
    /\ pc = "done"
    /\ Len(files) = 3
    /\ joined = {0, 1}
    /\ photo_points = <<>>
    /\ savefigs = 1

\* the claim's own reading of "has a position that lies within a zone"
InSomeZone(photo) ==
    /\ ~photo.latitude.nan
    /\ ~photo.longitude.nan
    /\ \E s \in STATIONS :
         within(to_crs([lon |-> photo.longitude.v, lat |-> photo.latitude.v]), s)

CopyMade ==
    /\ Len(copies') = Len(copies) + 1
    /\ copies'[Len(copies')].src = fname
    /\ copies'[Len(copies')].dst.dir = output_dir
    /\ fs'[copies'[Len(copies')].dst] = fs[fname]

Skipped ==
    /\ copies' = copies
    /\ fs' = fs
    /\ dir_exists' = dir_exists
    /\ makedirs' = makedirs
    /\ stdout' = Append(stdout, Line(Skipping(fname)))
    /\ photo_points' = photo_points
    /\ pc' = "loop"
    /\ idx' = idx + 1

\* C10 as stated: an extracted photo is copied if and only if it has a
\* position within some station zone; otherwise nothing is copied, no
\* directory is made, the skip message is printed, the photo is not kept for
\* the plot and the loop goes on.
C10_CopiedIffInSomeZone ==
    [][pc = "join" => IF InSomeZone(img_obj) THEN CopyMade ELSE Skipped]_vars

\* C10 amended: the same, except that a photo within a zone whose file
\* already is its own destination is not copied: shutil.copy raises
\* SameFileError and the run ends.
C10_CopiedIffInSomeZoneAndNotSameFile ==
    [][pc = "join" =>
         IF InSomeZone(img_obj)
         THEN IF fname = join(output_dir, new_name(sjoin(img_obj), img_obj))
              THEN copies' = copies /\ fs' = fs /\ pc' = "crashed"
                   /\ raised' = "SameFileError"
              ELSE CopyMade /\ pc' = "loop" /\ idx' = idx + 1
         ELSE Skipped]_vars

\* a run that skipped a photo without latitude and then copied one
C10_Witness ==
    /\ Len(files) = 3
    /\ files[1] = Cwd("e.jpg")
    /\ PrintedAt(0, Skipping(Cwd("e.jpg")))
    /\ Len(copies) = 1
    /\ copies[1].idx = 1
    /\ makedirs = {1}

====
